---- MODULE Spec2Model ----
(***************************************************************************)
(* State-machine model of lg69t/firmware_tool.py: one Upgrade run over a   *)
(* serial port (send_reboot, synchronize, the framed address / info /      *)
(* start commands, send_firmware and the wait-for-restart probe), main's   *)
(* sequence of Upgrade calls, and get_response as a function of the bytes  *)
(* it reads.                                                               *)
(*                                                                         *)
(* Time is counted in ticks of 0.05 s, the serial read timeout that        *)
(* synchronize sets (ser.timeout = 0.05).  `clock` is time.time() minus    *)
(* the start_time of the timed function that is running.                   *)
(*                                                                         *)
(* The firmware image is a byte string whose content is arbitrary; a slice *)
(* of it is represented by the half-open interval [lo, hi) of the offsets  *)
(* it holds, so firmware_data[:n] and firmware_data[n:] are computed on    *)
(* the offsets with the real PACKET_SIZE.                                  *)
(*                                                                         *)
(* An empty or short serial read costs one tick; any step may take one     *)
(* more.  The timeouts (10.0 s in the code) are scaled down to a few ticks. *)
(*                                                                         *)
(* `log` is the observable history of the run: the port being opened and   *)
(* closed, everything written to the port, the verdict of every            *)
(* get_response, and the return values of send_reboot and synchronize.     *)
(***************************************************************************)
EXTENDS Integers, Sequences, FiniteSets, TLC

VARIABLES
    pc,                 \* position of the Upgrade run in the code
    upgrade_type,       \* Upgrade parameter: "APP" or "GNSS"
    should_send_reboot, \* Upgrade parameter
    wait_for_reboot,    \* Upgrade parameter
    ser_open,           \* the `with Serial(...)` block holds the port
    clock,              \* ticks since start_time of the running timed function
    last_send_time,     \* send_reboot local, relative to its start_time
    stream,             \* inbound bytes offered while synchronize runs
    chatty,             \* after `stream`, the device keeps sending noise bytes
    pos,                \* next unread position of `stream`
    resp_data,          \* synchronize local: the sliding window
    c,                  \* synchronize local: the last single-byte read
    firmware_data,      \* the unsent rest of the image, [lo, hi)
    sequence_num,       \* send_firmware local
    log,                \* observable history of the run
    result,             \* return value of Upgrade: "pending", "True", "False", "None"
    main_pc,            \* position of main in the code
    gnss_bin_fd,        \* main local: a GNSS image was given (is not None)
    app_bin_fd,         \* main local: an application image was given (is not None)
    exit_status,        \* exit status of the invocation, RUNNING until it ends
    sessions,           \* history of main: the calls and returns of Upgrade
    gr_args,            \* one call of get_response: its parameters and the bytes it reads
    gr_ret              \* the verdict of that call, "none" before it returns

\* the variables of main, and of get_response called on its own
main_vars == <<main_pc, gnss_bin_fd, app_bin_fd, exit_status, sessions>>
call_vars == <<gr_args, gr_ret>>
outer_vars == <<main_vars, call_vars>>

\* the variables of one Upgrade run
upgrade_vars == <<pc, upgrade_type, should_send_reboot, wait_for_reboot, ser_open, clock,
                  last_send_time, stream, chatty, pos, resp_data, c, firmware_data,
                  sequence_num, log, result>>

vars == <<upgrade_vars, outer_vars>>

----------------------------------------------------------------------------
(* Bounds of the model *)

\* overall timeout of synchronize (timeout=10.0), scaled down, in ticks
SyncTimeout == 3
\* overall timeout of send_reboot (timeout=10.0), scaled down, in ticks
RebootTimeout == 12
\* how far past a timeout the clock is still counted
Overrun == 2
\* number of segments an inbound stream is built of
MaxSegs == 3
\* largest image, in chunks
MaxChunks == 5

----------------------------------------------------------------------------
(* Protocol constants *)

RSP_WORD1_BYTES == <<77, 58, 252, 170>>     \* struct.pack('<I', 0xAAFC3A4D)
RSP_WORD2_BYTES == <<160, 91, 253, 85>>     \* struct.pack('<I', 0x55FD5BA0)

CLASS_GNSS == 1
CLASS_APP == 2

MSG_ID_FIRMWARE_ADDRESS == 1
MSG_ID_FIRMWARE_INFO == 2
MSG_ID_START_UPGRADE == 3
MSG_ID_SEND_FIRMWARE == 4

PACKET_SIZE == 1024 * 5

RESPONSE_PAYLOAD_SIZE == 4

\* struct.calcsize('>BBBHBBHIB')
response_size == 14

\* the 0.5 s between two transmissions of the reset command, in ticks
RESEND_INTERVAL == 10

\* last_send_time = 0 is the epoch: more than 0.5 s before any start_time
LAST_SEND_INIT == 0 - RESEND_INTERVAL - 1

\* a silence of at least one read timeout in the inbound stream
GAP == 0 - 1

\* a byte that belongs to neither sync response
NOISE == 0

Min(a, b) == IF a < b THEN a ELSE b

\* the clock, no longer counted beyond timeout + Overrun
Tick(t, dt, timeout) == Min(t + dt, timeout + Overrun)

----------------------------------------------------------------------------
(* The serial port's inbound side while synchronize runs *)

\* ser.read(n) with the 0.05 s timeout, from position p of stream s: the bytes
\* read, the position after them, and whether the read ran into its timeout
RECURSIVE SerRead(_, _, _, _)
SerRead(s, p, ch, n) ==
    IF n = 0 THEN [data |-> <<>>, pos |-> p, timeouts |-> 0]
    ELSE IF p > Len(s) THEN
        IF ch THEN LET r == SerRead(s, p, ch, n - 1)
                   IN  [r EXCEPT !.data = <<NOISE>> \o r.data]
        ELSE [data |-> <<>>, pos |-> p, timeouts |-> 1]
    ELSE IF s[p] = GAP THEN [data |-> <<>>, pos |-> p + 1, timeouts |-> 1]
    ELSE LET r == SerRead(s, p + 1, ch, n - 1)
         IN  [r EXCEPT !.data = <<s[p]>> \o r.data]

\* the inbound streams: up to MaxSegs segments, each a noise byte, a silence,
\* sync response 1 or sync response 2
Segments == {<<NOISE>>, <<GAP>>, RSP_WORD1_BYTES, RSP_WORD2_BYTES}

RECURSIVE StreamsOf(_)
StreamsOf(n) ==
    IF n = 0 THEN {<<>>}
    ELSE LET S == StreamsOf(n - 1) IN S \cup {s \o g : s \in S, g \in Segments}

Streams == StreamsOf(MaxSegs)

\* python's b[1:]
DropFirst(b) == IF Len(b) = 0 THEN <<>> ELSE Tail(b)

----------------------------------------------------------------------------
(* Frames and responses *)

\* struct.pack('>H', n)
BE16(n) == <<(n \div 256) % 256, n % 256>>

\* zlib.crc32, as 4 big-endian bytes.  The model keeps which bytes the
\* checksum covers and that it depends on each of them and on their order;
\* it computes the two running sums of zlib's Adler-32 in place of the
\* CRC-32 polynomial division.
RECURSIVE crc32_sums(_, _, _, _)
crc32_sums(b, i, s1, s2) ==
    IF i > Len(b) THEN <<s1, s2>>
    ELSE LET t1 == (s1 + b[i]) % 65521
         IN  crc32_sums(b, i + 1, t1, (s2 + t1) % 65521)

crc32(b) == LET s == crc32_sums(b, 1, 1, 0) IN BE16(s[2]) \o BE16(s[1])

\* a 14-byte response as the device lays it out: '>BBBHBBHIB'
Response(lead, size, cls, msg, code, crc, tail) ==
    lead \o BE16(size) \o <<cls, msg>> \o BE16(code) \o crc \o <<tail>>

\* the response with a correct CRC
GoodResponse(lead, size, cls, msg, code) ==
    LET body == SubSeq(lead, 2, 3) \o BE16(size) \o <<cls, msg>> \o BE16(code)
    IN  Response(lead, size, cls, msg, code, crc32(body), 85)

OtherClass(cls) == IF cls = CLASS_APP THEN CLASS_GNSS ELSE CLASS_APP
OtherMsg(msg) == IF msg = MSG_ID_SEND_FIRMWARE THEN MSG_ID_START_UPGRADE ELSE msg + 1

\* what ser.read(response_size) may return when a response to (cls, msg) is
\* awaited: the valid response, and responses wrong in one or two fields
Inbound(cls, msg) ==
    LET lead == <<170, 0, 0>>
        good == GoodResponse(lead, RESPONSE_PAYLOAD_SIZE, cls, msg, 0)
    IN  { good,
          <<>>,
          SubSeq(good, 1, response_size - 1),
          GoodResponse(lead, RESPONSE_PAYLOAD_SIZE + 1, cls, msg, 0),
          GoodResponse(lead, RESPONSE_PAYLOAD_SIZE, OtherClass(cls), msg, 0),
          GoodResponse(lead, RESPONSE_PAYLOAD_SIZE, cls, OtherMsg(msg), 0),
          Response(lead, RESPONSE_PAYLOAD_SIZE, cls, msg, 0, <<0, 0, 0, 0>>, 85),
          GoodResponse(lead, RESPONSE_PAYLOAD_SIZE, cls, msg, 1),
          Response(lead, RESPONSE_PAYLOAD_SIZE, cls, msg, 1, <<0, 0, 0, 0>>, 85),
          GoodResponse(<<171, 0, 0>>, RESPONSE_PAYLOAD_SIZE, cls, msg, 0),
          [good EXCEPT ![2] = 7],
          [good EXCEPT ![response_size] = 0] }

\* a faulty variant of calculated_crc: the two leading bytes are left out
calculated_crc_fields_only(data) == crc32(SubSeq(data, 4, response_size - 5))

\* zlib.crc32(data[1:-5]): the bytes at offsets 1 .. 8
calculated_crc(data) == crc32(SubSeq(data, 2, response_size - 5))

\* a faulty variant of get_response: the response code is not looked at
get_response_any_code(class_id, msg_id, data) ==
    IF Len(data) < response_size THEN "timeout"
    ELSE IF RESPONSE_PAYLOAD_SIZE # data[4] * 256 + data[5] THEN "size"
    ELSE IF class_id # data[6] THEN "class_id"
    ELSE IF msg_id # data[7] THEN "msg_id"
    ELSE IF SubSeq(data, 10, 13) # calculated_crc(data) THEN "crc"
    ELSE "ok"

\* a faulty variant of get_response: the response code is looked at before the CRC
get_response_code_first(class_id, msg_id, data) ==
    IF Len(data) < response_size THEN "timeout"
    ELSE IF RESPONSE_PAYLOAD_SIZE # data[4] * 256 + data[5] THEN "size"
    ELSE IF class_id # data[6] THEN "class_id"
    ELSE IF msg_id # data[7] THEN "msg_id"
    ELSE IF data[8] * 256 + data[9] # 0 THEN "error"
    ELSE IF SubSeq(data, 10, 13) # calculated_crc(data) THEN "crc"
    ELSE "ok"

\* get_response on the bytes `data` that ser.read(response_size) returned:
\* "ok" for True, otherwise the check that made it return False
get_response(class_id, msg_id, data) ==
    IF Len(data) < response_size THEN "timeout"
    ELSE LET read_payload_size == data[4] * 256 + data[5]
             read_class_id == data[6]
             read_msg_id == data[7]
             response == data[8] * 256 + data[9]
             crc == SubSeq(data, 10, 13)
         IN  IF RESPONSE_PAYLOAD_SIZE # read_payload_size THEN "size"
             ELSE IF class_id # read_class_id THEN "class_id"
             ELSE IF msg_id # read_msg_id THEN "msg_id"
             ELSE IF crc # calculated_crc(data) THEN "crc"
             ELSE IF response # 0 THEN "error"
             ELSE "ok"

\* a slice of the image: the offsets lo .. hi-1
Slice(lo, hi) == [lo |-> lo, hi |-> hi]
SliceLen(d) == d.hi - d.lo
\* d[:n] and d[n:]
SliceHead(d, n) == Slice(d.lo, Min(d.lo + n, d.hi))
SliceRest(d, n) == Slice(Min(d.lo + n, d.hi), d.hi)

PayloadLen(payload) ==
    CASE payload.p = "zero4" -> 4
      [] payload.p = "empty" -> 0
      [] payload.p = "app_info" -> 16
      [] payload.p = "gnss_info" -> 32
      [] payload.p = "chunk" -> 4 + SliceLen(payload.data)

\* encode_message: the frame HEADER class_id msg_id len payload crc TAIL
encode_message(class_id, msg_id, payload) ==
    [k |-> "frame", class_id |-> class_id, msg_id |-> msg_id,
     length |-> PayloadLen(payload), payload |-> payload]

\* a faulty variant of encode_app_info: the frame carries the GNSS class id
encode_app_info_gnss_class(data) ==
    encode_message(CLASS_GNSS, MSG_ID_FIRMWARE_INFO,
        [p |-> "app_info", length |-> SliceLen(data), fw_crc_of |-> data,
         geometry |-> <<131072>>, flags |-> <<1>>])

encode_app_info(data) ==
    encode_message(CLASS_APP, MSG_ID_FIRMWARE_INFO,
        [p |-> "app_info", length |-> SliceLen(data), fw_crc_of |-> data,
         geometry |-> <<131072>>, flags |-> <<1>>])

encode_gnss_info(data) ==
    encode_message(CLASS_GNSS, MSG_ID_FIRMWARE_INFO,
        [p |-> "gnss_info", length |-> SliceLen(data), fw_crc_of |-> data,
         geometry |-> <<268435456, 1024, 1572864, 524288>>, flags |-> <<1, 0, 0>>])

\* the image files bin_file.read() may return, by length
ImageLengths ==
    {n * PACKET_SIZE + r : n \in 0 .. MaxChunks - 1, r \in {0, 1}}
        \cup {PACKET_SIZE - 1, MaxChunks * PACKET_SIZE}

----------------------------------------------------------------------------
(* Upgrade *)

class_id == IF upgrade_type = "APP" THEN CLASS_APP ELSE CLASS_GNSS

\* exit_status while the invocation has not ended
RUNNING == 0 - 1

\* gr_args while get_response is not being called on its own
NoCall == [class_id |-> 0, msg_id |-> 0, data |-> <<>>]

\* Upgrade is called.  main passes wait_for_reboot only with the GNSS image
\* (when an application image follows); the application call leaves it False.
\* main is inside that call.
Init ==
    /\ pc = "Idle"
    /\ upgrade_type \in {"APP", "GNSS"}
    /\ should_send_reboot \in BOOLEAN
    /\ wait_for_reboot \in (IF upgrade_type = "GNSS" THEN BOOLEAN ELSE {FALSE})
    /\ ser_open = FALSE
    /\ clock = 0
    /\ last_send_time = LAST_SEND_INIT
    /\ stream = <<>>
    /\ chatty = FALSE
    /\ pos = 1
    /\ resp_data = <<0, 0, 0, 0>>
    /\ c = <<>>
    /\ firmware_data = Slice(0, 0)
    /\ sequence_num = 0
    /\ log = <<>>
    /\ result = "pending"
    /\ main_pc = (IF upgrade_type = "GNSS" THEN "gnss_run" ELSE "app_run")
    /\ gnss_bin_fd = (upgrade_type = "GNSS")
    /\ app_bin_fd = (upgrade_type = "APP" \/ wait_for_reboot)
    /\ exit_status = RUNNING
    /\ sessions = <<[e |-> "call", target |-> upgrade_type]>>
    /\ gr_args = NoCall
    /\ gr_ret = "none"

\* a faulty variant of Return: the port is not closed on the way out
ReturnLeak(value, lg) ==
    /\ pc' = "done"
    /\ result' = value
    /\ ser_open' = ser_open
    /\ log' = lg

\* a return statement of Upgrade inside the `with Serial(...)` block: the
\* block's exit closes the port, whatever the value returned
Return(value, lg) ==
    /\ pc' = "done"
    /\ result' = value
    /\ ser_open' = FALSE
    /\ log' = Append(lg, [k |-> "close"])

\* entering send_reboot: start_time = time.time(), last_send_time = 0
EnterSendReboot(at) ==
    /\ pc' = at
    /\ clock' = 0
    /\ last_send_time' = LAST_SEND_INIT

\* Upgrade up to its first call: the port is opened; send_reboot is called
\* if should_send_reboot, synchronize otherwise
UpgradeOpen ==
    /\ pc = "Idle"
    /\ ser_open' = TRUE
    /\ log' = Append(log, [k |-> "open"])
    /\ IF should_send_reboot
       THEN EnterSendReboot("send_reboot")
       ELSE pc' = "synchronize" /\ UNCHANGED <<clock, last_send_time>>
    /\ UNCHANGED <<outer_vars, upgrade_type, should_send_reboot, wait_for_reboot, stream, chatty, pos, resp_data,
                   c, firmware_data, sequence_num, result>>

\* a faulty variant of ResendDue: the command is written in every iteration
ResendAlways == TRUE

\* `if time.time() > last_send_time + 0.5`
ResendDue == clock > last_send_time + RESEND_INTERVAL

\* one iteration of send_reboot's loop
\*   flag: the reset value sent; msg: the first CommandResponseMessage that
\*   decoder.on_data(ser.read_all()) yields, if any; d: the time the iteration took
\* ret is "True" or "False" when send_reboot returns, "loop" when it goes on
\* the log also tells why it returned: the acknowledgment received, or the
\* time at which the loop was left without one
send_reboot(flag, msg, d) ==
    IF clock < RebootTimeout
    THEN LET send == ResendDue
             lg == IF send THEN Append(log, [k |-> "reset", flag |-> flag, at |-> clock])
                           ELSE log
             sent_at == IF send THEN clock ELSE last_send_time
             acked == Append(lg, [k |-> "ack", status |-> msg])
         IN  CASE msg = "OK" ->
                    [ret |-> "True", last_send_time |-> sent_at, clock |-> clock,
                     log |-> Append(acked, [k |-> "reboot_ret", flag |-> flag, ok |-> TRUE])]
               [] msg = "rejected" ->
                    [ret |-> "False", last_send_time |-> sent_at, clock |-> clock,
                     log |-> Append(acked, [k |-> "reboot_ret", flag |-> flag, ok |-> FALSE])]
               [] OTHER ->
                    [ret |-> "loop", last_send_time |-> sent_at,
                     clock |-> Tick(clock, d, RebootTimeout), log |-> lg]
    ELSE [ret |-> "False", last_send_time |-> last_send_time, clock |-> clock,
          log |-> Append(Append(log, [k |-> "timeout", at |-> clock]),
                         [k |-> "reboot_ret", flag |-> flag, ok |-> FALSE])]

\* send_reboot goes on, or returns and its locals are gone
SendRebootLoop(r) ==
    /\ log' = r.log
    /\ last_send_time' = r.last_send_time
    /\ clock' = r.clock
    /\ UNCHANGED <<pc, result, ser_open>>

SendRebootLeft == clock' = 0 /\ last_send_time' = LAST_SEND_INIT

\* a faulty variant of RebootFailed: the failed reboot is ignored
RebootFailedIgnored(lg) == pc' = "synchronize" /\ log' = lg /\ UNCHANGED <<result, ser_open>>

RebootAccepted(lg) == pc' = "synchronize" /\ log' = lg /\ UNCHANGED <<result, ser_open>>
RebootFailed(lg) == Return("False", lg)

\* `if not send_reboot(ser)`: the reboot before synchronization
SendReboot ==
    /\ pc = "send_reboot"
    /\ \E msg \in {"none", "OK", "rejected"}, d \in 0 .. 1 :
         LET r == send_reboot("REBOOT_NAVIGATION_PROCESSOR", msg, d)
         IN  CASE r.ret = "loop" -> SendRebootLoop(r)
               [] r.ret = "True" -> RebootAccepted(r.log) /\ SendRebootLeft
               [] r.ret = "False" -> RebootFailed(r.log) /\ SendRebootLeft
    /\ UNCHANGED <<outer_vars, upgrade_type, should_send_reboot, wait_for_reboot, stream, chatty, pos, resp_data,
                   c, firmware_data, sequence_num>>

----------------------------------------------------------------------------
(* synchronize *)

\* synchronize is entered: start_time, ser.timeout = 0.05, the window is
\* zeroed.  The inbound traffic of the synchronization is drawn here, from
\* the set S of streams.
SynchronizeEnter(S) ==
    /\ pc = "synchronize"
    /\ pc' = "sync_outer"
    /\ clock' = 0
    /\ resp_data' = <<0, 0, 0, 0>>
    /\ c' = <<>>
    /\ stream' \in S
    /\ chatty' \in BOOLEAN
    /\ pos' = 1
    /\ UNCHANGED <<outer_vars, upgrade_type, should_send_reboot, wait_for_reboot, ser_open, last_send_time,
                   firmware_data, sequence_num, log, result>>

\* within a whole Upgrade run: a silent or noisy device, a prompt handshake,
\* a handshake after noise, one whose second exchange times out, and one
\* after a repeated sync response 1
SessionStreams ==
    { <<>>,
      RSP_WORD1_BYTES \o RSP_WORD2_BYTES,
      <<NOISE>> \o RSP_WORD1_BYTES \o RSP_WORD2_BYTES,
      RSP_WORD1_BYTES \o <<GAP>>,
      RSP_WORD1_BYTES \o RSP_WORD1_BYTES \o RSP_WORD2_BYTES }

Synchronize == SynchronizeEnter(SessionStreams)

\* synchronize on its own, over every stream of up to MaxSegs segments
SynchronizeAny == SynchronizeEnter(Streams)

\* a faulty variant of SynchronizeReturn: Upgrade goes on whatever synchronize returned
SynchronizeReturnIgnored(ok, lg) ==
    /\ clock' = 0
    /\ resp_data' = <<0, 0, 0, 0>>
    /\ c' = <<>>
    /\ pc' = "address"
    /\ log' = Append(lg, [k |-> "sync_ret", ok |-> ok])
    /\ UNCHANGED <<result, ser_open>>

\* synchronize returns: its locals are gone; Upgrade goes on to the address
\* command after True and returns False after False
SynchronizeReturn(ok, lg) ==
    /\ clock' = 0
    /\ resp_data' = <<0, 0, 0, 0>>
    /\ c' = <<>>
    /\ IF ok
       THEN /\ pc' = "address"
            /\ log' = Append(lg, [k |-> "sync_ret", ok |-> TRUE])
            /\ UNCHANGED <<result, ser_open>>
       ELSE Return("False", Append(lg, [k |-> "sync_ret", ok |-> FALSE]))

\* the head of the outer loop: while inside the timeout, sync word 1 is
\* written and one byte is read; past it, synchronize returns False
SyncOuter ==
    /\ pc = "sync_outer"
    /\ IF clock < SyncTimeout
       THEN \E d \in 0 .. 1 :
              LET r == SerRead(stream, pos, chatty, 1)
              IN  /\ log' = Append(log, [k |-> "sync1"])
                  /\ c' = r.data
                  /\ pos' = r.pos
                  /\ clock' = Tick(clock, r.timeouts + d, SyncTimeout)
                  /\ pc' = "sync_inner"
                  /\ UNCHANGED <<resp_data, result, ser_open>>
       ELSE /\ SynchronizeReturn(FALSE, log)
            /\ UNCHANGED pos
    /\ UNCHANGED <<outer_vars, upgrade_type, should_send_reboot, wait_for_reboot, last_send_time, stream, chatty,
                   firmware_data, sequence_num>>

\* the inner loop: while len(c) > 0 the byte is shifted into the window; on
\* sync response 1, sync word 2 is written and 4 bytes are read into
\* resp_data; then the next byte is read
SyncInner ==
    /\ pc = "sync_inner"
    /\ IF Len(c) > 0
       THEN LET window == DropFirst(resp_data) \o c
            IN  IF window = RSP_WORD1_BYTES
                THEN LET r4 == SerRead(stream, pos, chatty, 4)
                         lg == Append(log, [k |-> "sync2", at |-> clock])
                     IN  IF Len(r4.data) = 4 /\ r4.data = RSP_WORD2_BYTES
                         THEN /\ SynchronizeReturn(TRUE, lg)
                              /\ pos' = r4.pos
                         ELSE \E d \in 0 .. 1 :
                                LET r == SerRead(stream, r4.pos, chatty, 1)
                                IN  /\ log' = lg
                                    /\ resp_data' = r4.data
                                    /\ c' = r.data
                                    /\ pos' = r.pos
                                    /\ clock' = Tick(clock, r4.timeouts + r.timeouts + d,
                                                     SyncTimeout)
                                    /\ UNCHANGED <<pc, result, ser_open>>
                ELSE \E d \in 0 .. 1 :
                       LET r == SerRead(stream, pos, chatty, 1)
                       IN  /\ resp_data' = window
                           /\ c' = r.data
                           /\ pos' = r.pos
                           /\ clock' = Tick(clock, r.timeouts + d, SyncTimeout)
                           /\ UNCHANGED <<pc, log, result, ser_open>>
       ELSE /\ pc' = "sync_outer"
            /\ UNCHANGED <<clock, resp_data, c, pos, log, result, ser_open>>
    /\ UNCHANGED <<outer_vars, upgrade_type, should_send_reboot, wait_for_reboot, last_send_time, stream, chatty,
                   firmware_data, sequence_num>>

----------------------------------------------------------------------------
(* The framed commands of Upgrade *)

\* ser.write(frame) followed by the blocking get_response
WriteFrame(frame, next) ==
    /\ log' = Append(log, frame)
    /\ pc' = next
    /\ UNCHANGED <<outer_vars, upgrade_type, should_send_reboot, wait_for_reboot, ser_open, clock, last_send_time,
                   stream, chatty, pos, resp_data, c, firmware_data, sequence_num,
                   result>>

\* the log after get_response(cls, msg, ser) has read `data`
Verdict(cls, msg, data) ==
    Append(log, [k |-> "rx", class_id |-> cls, msg_id |-> msg,
                 verdict |-> get_response(cls, msg, data)])

SendAddress ==
    /\ pc = "address"
    /\ WriteFrame(encode_message(class_id, MSG_ID_FIRMWARE_ADDRESS, [p |-> "zero4"]),
                  "address_rsp")

\* the address response; then firmware_data = bin_file.read()
AddressResponse ==
    /\ pc = "address_rsp"
    /\ \E data \in Inbound(class_id, MSG_ID_FIRMWARE_ADDRESS) :
         LET lg == Verdict(class_id, MSG_ID_FIRMWARE_ADDRESS, data)
         IN  IF get_response(class_id, MSG_ID_FIRMWARE_ADDRESS, data) = "ok"
             THEN /\ \E n \in ImageLengths : firmware_data' = Slice(0, n)
                  /\ pc' = "info"
                  /\ log' = lg
                  /\ UNCHANGED <<result, ser_open>>
             ELSE /\ Return("False", lg)
                  /\ UNCHANGED firmware_data
    /\ UNCHANGED <<outer_vars, upgrade_type, should_send_reboot, wait_for_reboot, clock, last_send_time, stream,
                   chatty, pos, resp_data, c, sequence_num>>

SendInfo ==
    /\ pc = "info"
    /\ WriteFrame(IF upgrade_type = "GNSS" THEN encode_gnss_info(firmware_data)
                                          ELSE encode_app_info(firmware_data),
                  "info_rsp")

InfoResponse ==
    /\ pc = "info_rsp"
    /\ \E data \in Inbound(class_id, MSG_ID_FIRMWARE_INFO) :
         LET lg == Verdict(class_id, MSG_ID_FIRMWARE_INFO, data)
         IN  IF get_response(class_id, MSG_ID_FIRMWARE_INFO, data) = "ok"
             THEN pc' = "start" /\ log' = lg /\ UNCHANGED <<result, ser_open>>
             ELSE Return("False", lg)
    /\ UNCHANGED <<outer_vars, upgrade_type, should_send_reboot, wait_for_reboot, clock, last_send_time, stream,
                   chatty, pos, resp_data, c, firmware_data, sequence_num>>

SendStart ==
    /\ pc = "start"
    /\ WriteFrame(encode_message(class_id, MSG_ID_START_UPGRADE, [p |-> "empty"]),
                  "start_rsp")

\* the start-upgrade response; on success send_firmware is entered
StartResponse ==
    /\ pc = "start_rsp"
    /\ \E data \in Inbound(class_id, MSG_ID_START_UPGRADE) :
         LET lg == Verdict(class_id, MSG_ID_START_UPGRADE, data)
         IN  IF get_response(class_id, MSG_ID_START_UPGRADE, data) = "ok"
             THEN pc' = "firmware" /\ log' = lg /\ UNCHANGED <<result, ser_open>>
             ELSE Return("False", lg)
    /\ sequence_num' = 0
    /\ UNCHANGED <<outer_vars, upgrade_type, should_send_reboot, wait_for_reboot, clock, last_send_time, stream,
                   chatty, pos, resp_data, c, firmware_data>>

----------------------------------------------------------------------------
(* send_firmware *)

\* the chunk that the loop body sends
Chunk(cls, seq, data) ==
    encode_message(cls, MSG_ID_SEND_FIRMWARE,
                   [p |-> "chunk", seq |-> seq, data |-> SliceHead(data, PACKET_SIZE)])

\* a faulty variant of NextSequenceNum: the sequence number grows by the bytes sent
NextSequenceNumBytes(seq) == seq + PACKET_SIZE

\* a faulty variant of NextSequenceNum: the number is not advanced
NextSequenceNumSame(seq) == seq

\* what follows the acknowledged chunk
NextData(data) == SliceRest(data, PACKET_SIZE)
NextSequenceNum(seq) == seq + 1

\* 'Please reboot the device': with wait_for_reboot, input() waits for a key
\* before Upgrade returns True
PromptThenReturn(lg) ==
    IF wait_for_reboot
    THEN pc' = "input" /\ log' = lg /\ UNCHANGED <<result, ser_open>>
    ELSE Return("True", lg)

\* faulty variants of TransferFailed: the failure is not reported; the chunk is retried
TransferFailedTrue(lg) == Return("True", lg)
TransferFailedRetry(lg) == pc' = "firmware" /\ log' = lg /\ UNCHANGED <<result, ser_open>>

\* send_firmware returns False: `send_firmware(...) is True` does not hold and
\* Upgrade falls off its end, leaving the `with` block and returning None
TransferFailed(lg) == Return("None", lg)

\* the head of send_firmware's loop: the next chunk is written while data is
\* left; with none left send_firmware returns True, and Upgrade either
\* waits for the restart (automated reboot) or returns True
SendFirmware ==
    /\ pc = "firmware"
    /\ IF SliceLen(firmware_data) > 0
       THEN WriteFrame(Chunk(class_id, sequence_num, firmware_data), "firmware_rsp")
       ELSE /\ IF should_send_reboot
               THEN /\ EnterSendReboot("wait_restart")
                    /\ UNCHANGED <<log, result, ser_open>>
               ELSE /\ PromptThenReturn(log)
                    /\ UNCHANGED <<clock, last_send_time>>
            /\ UNCHANGED <<outer_vars, upgrade_type, should_send_reboot, wait_for_reboot, stream, chatty, pos,
                           resp_data, c, firmware_data, sequence_num>>

\* the response to a chunk: acknowledged, the data advances and the sequence
\* number grows; otherwise send_firmware returns False and Upgrade falls off
\* its end, returning None
FirmwareResponse ==
    /\ pc = "firmware_rsp"
    /\ \E data \in Inbound(class_id, MSG_ID_SEND_FIRMWARE) :
         LET lg == Verdict(class_id, MSG_ID_SEND_FIRMWARE, data)
         IN  IF get_response(class_id, MSG_ID_SEND_FIRMWARE, data) = "ok"
             THEN /\ firmware_data' = NextData(firmware_data)
                  /\ sequence_num' = NextSequenceNum(sequence_num)
                  /\ pc' = "firmware"
                  /\ log' = lg
                  /\ UNCHANGED <<result, ser_open>>
             ELSE /\ TransferFailed(lg)
                  /\ UNCHANGED <<firmware_data, sequence_num>>
    /\ UNCHANGED <<outer_vars, upgrade_type, should_send_reboot, wait_for_reboot, clock, last_send_time, stream,
                   chatty, pos, resp_data, c>>

----------------------------------------------------------------------------
(* After the transfer *)

\* a faulty variant of RestartNotSeen: the missing restart fails the upgrade
RestartNotSeenFails(lg) == Return("False", lg)

RestartSeen(lg) == Return("True", lg)
RestartNotSeen(lg) == PromptThenReturn(lg)

\* `if send_reboot(ser, reboot_flag=0)`: the wait for the restarted software;
\* Upgrade returns True after either outcome
WaitRestart ==
    /\ pc = "wait_restart"
    /\ \E msg \in {"none", "OK", "rejected"}, d \in 0 .. 1 :
         LET r == send_reboot("NOOP", msg, d)
         IN  CASE r.ret = "loop" -> SendRebootLoop(r)
               [] r.ret = "True" -> RestartSeen(r.log) /\ SendRebootLeft
               [] r.ret = "False" -> RestartNotSeen(r.log) /\ SendRebootLeft
    /\ UNCHANGED <<outer_vars, upgrade_type, should_send_reboot, wait_for_reboot, stream, chatty, pos, resp_data,
                   c, firmware_data, sequence_num>>

\* input('Press any key to continue...') returns; Upgrade returns True
KeyPressed ==
    /\ pc = "input"
    /\ Return("True", log)
    /\ UNCHANGED <<outer_vars, upgrade_type, should_send_reboot, wait_for_reboot, clock,
                   last_send_time, stream, chatty, pos, resp_data, c, firmware_data,
                   sequence_num>>

Next ==
    \/ UpgradeOpen
    \/ SendReboot
    \/ Synchronize
    \/ SyncOuter
    \/ SyncInner
    \/ SendAddress
    \/ AddressResponse
    \/ SendInfo
    \/ InfoResponse
    \/ SendStart
    \/ StartResponse
    \/ SendFirmware
    \/ FirmwareResponse
    \/ WaitRestart
    \/ KeyPressed

Spec == Init /\ [][Next]_vars

\* synchronize alone, entered from an Upgrade with manual reboot
InitSync == Init /\ should_send_reboot = FALSE

NextSync ==
    \/ UpgradeOpen
    \/ SynchronizeAny
    \/ SyncOuter
    \/ SyncInner

SpecSync == InitSync /\ [][NextSync]_vars

----------------------------------------------------------------------------
(* main: the Upgrade calls of one invocation *)

\* a faulty variant of Falsy: only an explicit False counts as failure
FalsyOnlyFalse(value) == value = "False"

\* `if not Upgrade(...)`: the return values that count as failure
Falsy(value) == value \in {"False", "None"}

\* sys.exit(status), or main returning (status 0)
Exit(status) ==
    /\ main_pc' = "exit"
    /\ exit_status' = status
    /\ UNCHANGED <<gnss_bin_fd, app_bin_fd>>

\* Upgrade(port_name, fd, type, should_send_reboot, wait_for_reboot=wait) is
\* entered: a new run with its own locals
UpgradeCall(type, wait, at) ==
    /\ main_pc' = at
    /\ sessions' = Append(sessions, [e |-> "call", target |-> type])
    /\ pc' = "Idle"
    /\ upgrade_type' = type
    /\ wait_for_reboot' = wait
    /\ clock' = 0
    /\ last_send_time' = LAST_SEND_INIT
    /\ stream' = <<>>
    /\ chatty' = FALSE
    /\ pos' = 1
    /\ resp_data' = <<0, 0, 0, 0>>
    /\ c' = <<>>
    /\ firmware_data' = Slice(0, 0)
    /\ sequence_num' = 0
    /\ log' = <<>>
    /\ result' = "pending"
    /\ UNCHANGED <<should_send_reboot, ser_open, gnss_bin_fd, app_bin_fd, exit_status>>

\* Upgrade has returned to main: sys.exit(2) if the value is falsy
UpgradeReturned(next) ==
    /\ pc = "done"
    /\ sessions' = Append(sessions, [e |-> "return", target |-> upgrade_type,
                                     result |-> result])
    /\ IF Falsy(result)
       THEN Exit(2)
       ELSE main_pc' = next /\ UNCHANGED <<gnss_bin_fd, app_bin_fd, exit_status>>
    /\ UNCHANGED <<upgrade_vars, call_vars>>

\* `if gnss_bin_fd is not None:` the GNSS image is sent first
MainGnss ==
    /\ main_pc = "gnss"
    /\ IF gnss_bin_fd
       THEN UpgradeCall("GNSS", app_bin_fd, "gnss_run")
       ELSE main_pc' = "app"
            /\ UNCHANGED <<upgrade_vars, gnss_bin_fd, app_bin_fd, exit_status, sessions>>
    /\ UNCHANGED call_vars

MainGnssReturn == main_pc = "gnss_run" /\ UpgradeReturned("app")

\* `if app_bin_fd is not None:` then the application image; main ends after it
MainApp ==
    /\ main_pc = "app"
    /\ IF app_bin_fd
       THEN UpgradeCall("APP", FALSE, "app_run")
       ELSE Exit(0) /\ UNCHANGED <<upgrade_vars, sessions>>
    /\ UNCHANGED call_vars

MainAppReturn ==
    /\ main_pc = "app_run"
    /\ UpgradeReturned("end")

\* main falls off its end
MainEnd ==
    /\ main_pc = "end"
    /\ Exit(0)
    /\ UNCHANGED <<upgrade_vars, sessions, call_vars>>

\* main after its argument and file handling: at least one image was given
InitMain ==
    /\ main_pc = "gnss"
    /\ gnss_bin_fd \in BOOLEAN
    /\ app_bin_fd \in BOOLEAN
    /\ gnss_bin_fd \/ app_bin_fd
    /\ exit_status = RUNNING
    /\ sessions = <<>>
    /\ should_send_reboot \in BOOLEAN
    /\ pc = "uncalled"
    /\ upgrade_type = "none"
    /\ wait_for_reboot = FALSE
    /\ ser_open = FALSE
    /\ clock = 0
    /\ last_send_time = LAST_SEND_INIT
    /\ stream = <<>>
    /\ chatty = FALSE
    /\ pos = 1
    /\ resp_data = <<0, 0, 0, 0>>
    /\ c = <<>>
    /\ firmware_data = Slice(0, 0)
    /\ sequence_num = 0
    /\ log = <<>>
    /\ result = "pending"
    /\ gr_args = NoCall
    /\ gr_ret = "none"

NextMain ==
    \/ MainGnss
    \/ MainGnssReturn
    \/ MainApp
    \/ MainAppReturn
    \/ MainEnd
    \/ Next

SpecMain == InitMain /\ [][NextMain]_vars

----------------------------------------------------------------------------
(* get_response, called on its own *)

\* the fields a device may put in a response, the CRC it appends and how
\* many of the bytes arrive before the read times out.  crc "covered" is
\* the checksum of the bytes at offsets 1 .. 8, "fields" the checksum of
\* the size, class, message and code fields only.
ResponseFields ==
    [lead : {<<170, 0, 0>>, <<171, 0, 0>>, <<170, 7, 0>>, <<170, 0, 9>>},
     size : {RESPONSE_PAYLOAD_SIZE, RESPONSE_PAYLOAD_SIZE + 1},
     cls : {CLASS_GNSS, CLASS_APP},
     msg : {MSG_ID_FIRMWARE_INFO, MSG_ID_SEND_FIRMWARE},
     code : {0, 1},
     crc : {"covered", "fields", "zero"},
     tail : {85, 0},
     n : {0, response_size - 1, response_size}]

\* the bytes read for the fields f
ResponseOf(f) ==
    LET body == BE16(f.size) \o <<f.cls, f.msg>> \o BE16(f.code)
        crc == CASE f.crc = "covered" -> crc32(SubSeq(f.lead, 2, 3) \o body)
                 [] f.crc = "fields" -> crc32(body)
                 [] OTHER -> <<0, 0, 0, 0>>
    IN  SubSeq(Response(f.lead, f.size, f.cls, f.msg, f.code, crc, f.tail), 1, f.n)

\* get_response(ser, class_id, msg_id) is about to read what a device sent
InitCall ==
    /\ \E cls \in {CLASS_GNSS, CLASS_APP}, msg \in {MSG_ID_FIRMWARE_INFO, MSG_ID_SEND_FIRMWARE},
          f \in ResponseFields :
         gr_args = [class_id |-> cls, msg_id |-> msg, sent |-> f, data |-> ResponseOf(f)]
    /\ gr_ret = "none"
    /\ main_pc = "none"
    /\ gnss_bin_fd = FALSE
    /\ app_bin_fd = FALSE
    /\ exit_status = RUNNING
    /\ sessions = <<>>
    /\ should_send_reboot = FALSE
    /\ pc = "uncalled"
    /\ upgrade_type = "none"
    /\ wait_for_reboot = FALSE
    /\ ser_open = TRUE
    /\ clock = 0
    /\ last_send_time = LAST_SEND_INIT
    /\ stream = <<>>
    /\ chatty = FALSE
    /\ pos = 1
    /\ resp_data = <<0, 0, 0, 0>>
    /\ c = <<>>
    /\ firmware_data = Slice(0, 0)
    /\ sequence_num = 0
    /\ log = <<>>
    /\ result = "pending"

\* the call reads once and returns its verdict
GetResponse ==
    /\ gr_args # NoCall
    /\ gr_ret = "none"
    /\ gr_ret' = get_response(gr_args.class_id, gr_args.msg_id, gr_args.data)
    /\ UNCHANGED <<gr_args, upgrade_vars, main_vars>>

NextCall == GetResponse

SpecCall == InitCall /\ [][NextCall]_vars

----------------------------------------------------------------------------
(* Reading the log *)

FrameIdx == {i \in 1 .. Len(log) : log[i].k = "frame"}
ChunkIdx == {i \in FrameIdx : log[i].msg_id = MSG_ID_SEND_FIRMWARE}
RxIdx == {i \in 1 .. Len(log) : log[i].k = "rx"}
\* the position of frame i among the frames, and of chunk i among the chunks
FrameNo(i) == Cardinality({j \in FrameIdx : j <= i})
ChunkNo(i) == Cardinality({j \in ChunkIdx : j < i})

InLog(e) == \E i \in 1 .. Len(log) : log[i] = e
SyncOk == [k |-> "sync_ret", ok |-> TRUE]
RebootRet(flag, ok) == [k |-> "reboot_ret", flag |-> flag, ok |-> ok]
Acked(msg) == \E i \in RxIdx : log[i].msg_id = msg /\ log[i].verdict = "ok"
Failure == result \in {"False", "None"}

\* the length of the image, as the info frame announced it
ImageLens == {log[i].payload.length : i \in {j \in FrameIdx : log[j].msg_id = MSG_ID_FIRMWARE_INFO}}
CeilDiv(a, b) == (a + b - 1) \div b

----------------------------------------------------------------------------
(* C1 *)

ExpectedMsg(n) ==
    IF n = 1 THEN MSG_ID_FIRMWARE_ADDRESS
    ELSE IF n = 2 THEN MSG_ID_FIRMWARE_INFO
    ELSE IF n = 3 THEN MSG_ID_START_UPGRADE
    ELSE MSG_ID_SEND_FIRMWARE

\* C1: the frames of a run are written in the order address, info, start,
\* chunks; the first one directly after synchronize returned True, every
\* later one directly after get_response accepted the response to the frame
\* before it; and every response is read directly after a frame, so no two
\* frames are outstanding at once.
C1_FramesInOrder ==
    /\ \A i \in FrameIdx :
         /\ log[i].msg_id = ExpectedMsg(FrameNo(i))
         /\ InLog(SyncOk)
         /\ i > 1
         /\ IF FrameNo(i) = 1
            THEN log[i - 1] = SyncOk
            ELSE /\ log[i - 1].k = "rx"
                 /\ log[i - 1].verdict = "ok"
                 /\ log[i - 1].msg_id = ExpectedMsg(FrameNo(i) - 1)
    /\ \A i \in RxIdx :
         /\ i > 1
         /\ log[i - 1].k = "frame"
         /\ log[i - 1].msg_id = log[i].msg_id

C1_Witness ==
    /\ pc = "done"
    /\ result = "True"
    /\ Cardinality(ChunkIdx) >= 2

----------------------------------------------------------------------------
(* C2 *)

AllChunksAcked ==
    \E n \in ImageLens :
        Cardinality({i \in RxIdx : log[i].msg_id = MSG_ID_SEND_FIRMWARE
                                     /\ log[i].verdict = "ok"})
            = CeilDiv(n, PACKET_SIZE)

\* C2: a finished Upgrade has returned True exactly when the requested reboot
\* (if any) was acknowledged OK, synchronize returned True, the address, info
\* and start responses were accepted and every chunk of the image was
\* acknowledged; every other finished run has returned a false value.
C2_SuccessExactly ==
    IF pc = "done"
    THEN /\ result = "True" <=>
              /\ should_send_reboot =>
                    InLog(RebootRet("REBOOT_NAVIGATION_PROCESSOR", TRUE))
              /\ InLog(SyncOk)
              /\ Acked(MSG_ID_FIRMWARE_ADDRESS)
              /\ Acked(MSG_ID_FIRMWARE_INFO)
              /\ Acked(MSG_ID_START_UPGRADE)
              /\ AllChunksAcked
         /\ result # "True" => Failure
    ELSE result = "pending"

C2_Witness ==
    /\ pc = "done"
    /\ result = "True"
    /\ should_send_reboot
    /\ \A i \in RxIdx : log[i].verdict = "ok"
    /\ Cardinality(RxIdx) = 3 + MaxChunks

----------------------------------------------------------------------------
(* C3 *)

\* C3: once the response to chunk k is not accepted (short read, invalid
\* frame or non-zero response code), nothing more is written: the port is
\* closed at once, Upgrade has returned a false value, chunk k was written
\* once and no chunk after k was written.
C3_AbortOnFailedChunk ==
    \A i \in RxIdx :
        (log[i].msg_id = MSG_ID_SEND_FIRMWARE /\ log[i].verdict # "ok") =>
            /\ pc = "done"
            /\ Failure
            /\ Len(log) = i + 1
            /\ log[i + 1].k = "close"
            /\ log[i - 1].k = "frame"
            /\ \A j \in ChunkIdx :
                 /\ log[j].payload.seq <= log[i - 1].payload.seq
                 /\ log[j].payload.seq = log[i - 1].payload.seq => j = i - 1

\* the response to the 3rd chunk of a 5-chunk image carries a non-zero code
C3_Witness ==
    \E i \in RxIdx :
        /\ log[i].msg_id = MSG_ID_SEND_FIRMWARE
        /\ log[i].verdict = "error"
        /\ log[i - 1].payload.seq = 2
        /\ ImageLens = {5 * PACKET_SIZE}
        /\ pc = "done"

----------------------------------------------------------------------------
(* C5 *)

\* send_firmware has returned True
TransferDone ==
    \/ pc \in {"wait_restart", "input"}
    \/ pc = "done" /\ result = "True"

\* C5: the i-th chunk written (from 0) carries sequence number i and the image
\* bytes from i * PACKET_SIZE on, at most PACKET_SIZE of them; the first chunk
\* starts at offset 0 and each chunk starts where the one before ended; and a
\* fully acknowledged transfer of an image of L bytes has written
\* ceil(L / PACKET_SIZE) chunks, the last of which ends at L.
C5_Chunking ==
    /\ \A i \in ChunkIdx :
         LET d == log[i].payload.data
         IN  /\ log[i].payload.seq = ChunkNo(i)
             /\ SliceLen(d) <= PACKET_SIZE
             /\ SliceLen(d) > 0
             /\ log[i].length = 4 + SliceLen(d)
             /\ ChunkNo(i) = 0 => d.lo = 0
             /\ \A j \in ChunkIdx :
                  ChunkNo(j) = ChunkNo(i) + 1 => log[j].payload.data.lo = d.hi
    /\ TransferDone =>
         \A n \in ImageLens :
             /\ Cardinality(ChunkIdx) = CeilDiv(n, PACKET_SIZE)
             /\ \A i \in ChunkIdx :
                  ChunkNo(i) = Cardinality(ChunkIdx) - 1 => log[i].payload.data.hi = n

\* an image of exactly two full chunks was transferred
C5_Witness ==
    /\ TransferDone
    /\ ImageLens = {2 * PACKET_SIZE}
    /\ Cardinality(ChunkIdx) = 2

----------------------------------------------------------------------------
(* C4 *)

\* sync response 1 was matched before the timeout of synchronize had elapsed
Rsp1InTime == \E i \in 1 .. Len(log) : log[i].k = "sync2" /\ log[i].at < SyncTimeout

\* C4: as long as synchronize has not received sync response 1 within its
\* timeout, no frame has been written, and an Upgrade that has finished
\* has returned a false value.
C4_NoFrameWithoutTimelySync ==
    ~Rsp1InTime => (FrameIdx = {} /\ (pc = "done" => Failure))

----------------------------------------------------------------------------
(* C6 *)

Contains(s, pat) ==
    \E i \in 1 .. Len(s) - Len(pat) + 1 : SubSeq(s, i, i + Len(pat) - 1) = pat

\* the part of the inbound stream that synchronize has read
Consumed == SubSeq(stream, 1, pos - 1)

\* C6: synchronize has returned True exactly when the bytes it read hold sync
\* response 1 followed immediately by sync response 2, whatever precedes them.
C6_SyncIffHandshake ==
    \A i \in 1 .. Len(log) :
        log[i].k = "sync_ret" =>
            (log[i].ok <=> Contains(Consumed, RSP_WORD1_BYTES \o RSP_WORD2_BYTES))

----------------------------------------------------------------------------
(* C7 *)

\* C7: once the overall timeout has elapsed, synchronize reads no further
\* byte: its next step leaves the inner loop, and it returns.
C7_SyncStopsAtTimeout ==
    [][(pc = "sync_inner" /\ clock >= SyncTimeout) => pc' # "sync_inner"]_vars

----------------------------------------------------------------------------
(* C8 *)

ResetIdx(flag) == {i \in 1 .. Len(log) : log[i].k = "reset" /\ log[i].flag = flag}
SyncOrFrameIdx == {i \in 1 .. Len(log) : log[i].k \in {"sync1", "sync2", "frame"}}

\* C8: the reset command is written only when an automated reboot was
\* requested, and then before any sync word or frame, which are written only
\* after it was acknowledged OK; when send_reboot failed, no sync word and no
\* frame is written and Upgrade has returned False; with manual reboot no
\* reset command of either kind is written.
C8_RebootGate ==
    /\ ~should_send_reboot => \A i \in 1 .. Len(log) : log[i].k # "reset"
    /\ \A i \in ResetIdx("REBOOT_NAVIGATION_PROCESSOR") :
         \A j \in SyncOrFrameIdx : i < j
    /\ should_send_reboot =>
         \A j \in SyncOrFrameIdx :
             \E i \in 1 .. j - 1 : log[i] = RebootRet("REBOOT_NAVIGATION_PROCESSOR", TRUE)
    /\ InLog(RebootRet("REBOOT_NAVIGATION_PROCESSOR", FALSE)) =>
         /\ SyncOrFrameIdx = {}
         /\ pc = "done"
         /\ result = "False"

\* send_reboot failed after it had retransmitted the reset command
C8_Witness ==
    /\ InLog(RebootRet("REBOOT_NAVIGATION_PROCESSOR", FALSE))
    /\ Cardinality(ResetIdx("REBOOT_NAVIGATION_PROCESSOR")) >= 2
    /\ pc = "done"

----------------------------------------------------------------------------
(* C9 *)

NoRejectedResponse == \A i \in RxIdx : log[i].verdict = "ok"

\* C9: whatever the wait for the restart returns, Upgrade returns True (after
\* the key press it may ask for); and the no-op reset is written only in a
\* run with automated reboot whose transfer was fully acknowledged.
C9_ProbeAdvisory ==
    /\ \A ok \in BOOLEAN :
         InLog(RebootRet("NOOP", ok)) =>
             \/ pc = "done" /\ result = "True"
             \/ pc = "input" /\ ~ok /\ wait_for_reboot
    /\ pc = "input" => TransferDone /\ NoRejectedResponse
    /\ (pc = "wait_restart" \/ ResetIdx("NOOP") # {}) =>
         /\ should_send_reboot
         /\ AllChunksAcked
         /\ NoRejectedResponse

\* the wait ended without an OK acknowledgment, after a transfer of chunks
C9_Witness ==
    /\ InLog(RebootRet("NOOP", FALSE))
    /\ ChunkIdx # {}
    /\ pc = "done"
    /\ result = "True"

----------------------------------------------------------------------------
(* C10 *)

\* C10: the port is opened once, as the first thing of the run, is held at
\* every later position of the run, and is closed when Upgrade returns, on
\* success and on every failure; nothing is written or read after the close.
C10_PortScoped ==
    /\ pc = "Idle" => log = <<>>
    /\ Len(log) > 0 => log[1].k = "open"
    /\ \A i \in 2 .. Len(log) : log[i].k # "open"
    /\ \A i \in 1 .. Len(log) : log[i].k = "close" => i = Len(log)
    /\ ser_open <=> pc \notin {"Idle", "done"}
    /\ ser_open <=> (Len(log) > 0 /\ log[Len(log)].k # "close")

\* Upgrade has returned after a failed transfer
C10_Witness ==
    /\ pc = "done"
    /\ result = "None"
    /\ ~ser_open
    /\ log[Len(log)].k = "close"

----------------------------------------------------------------------------
(* main *)

SessionCalls(target) ==
    {i \in 1 .. Len(sessions) : sessions[i].e = "call" /\ sessions[i].target = target}
SessionReturns == {i \in 1 .. Len(sessions) : sessions[i].e = "return"}
UpgradeRunning == pc \notin {"uncalled", "done"} \/ ser_open

\* C11: with both targets requested the GNSS session runs to its end before
\* the application session begins and the two never overlap; a failure of any
\* attempted target ends the invocation with a non-zero exit status, and the
\* status is zero only if every attempted target reported success.
C11_SessionsInTurn ==
    /\ \A i \in 1 .. Len(sessions) :
         /\ sessions[i].e = (IF i % 2 = 1 THEN "call" ELSE "return")
         /\ sessions[i].e = "return" => sessions[i].target = sessions[i - 1].target
    /\ \A i \in SessionCalls("APP") :
         /\ \A j \in SessionCalls("GNSS") : j < i
         /\ gnss_bin_fd =>
              i > 1 /\ sessions[i - 1] = [e |-> "return", target |-> "GNSS", result |-> "True"]
    /\ UpgradeRunning =>
         /\ Len(sessions) % 2 = 1
         /\ sessions[Len(sessions)].target = upgrade_type
         /\ exit_status = RUNNING
    /\ \A i \in SessionReturns :
         sessions[i].result # "True" => i = Len(sessions) /\ exit_status = 2
    /\ exit_status = 0 =>
         /\ \A i \in SessionReturns : sessions[i].result = "True"
         /\ gnss_bin_fd => \E i \in SessionReturns : sessions[i].target = "GNSS"
         /\ app_bin_fd => \E i \in SessionReturns : sessions[i].target = "APP"

\* the GNSS session succeeded and the application session's transfer failed
C11_Witness ==
    /\ exit_status = 2
    /\ Len(sessions) = 4
    /\ sessions[2] = [e |-> "return", target |-> "GNSS", result |-> "True"]
    /\ sessions[4] = [e |-> "return", target |-> "APP", result |-> "None"]

----------------------------------------------------------------------------
(* get_response *)

Returned == gr_ret # "none"
Sent == gr_args.sent
Complete == Sent.n = response_size

\* C12: get_response returns success exactly when 14 bytes were read and the
\* payload size is 4, the class id and the message id are the expected
\* ones, the transmitted CRC is the recomputed one and the response code is
\* zero; a short read or any failing check makes it return failure.
C12_SuccessIffAllChecks ==
    Returned =>
        (gr_ret = "ok" <=>
            /\ Complete
            /\ Sent.size = RESPONSE_PAYLOAD_SIZE
            /\ Sent.cls = gr_args.class_id
            /\ Sent.msg = gr_args.msg_id
            /\ Sent.crc = "covered"
            /\ Sent.code = 0)

\* accepted with a first and a last byte that are not the usual ones
C12_Witness ==
    /\ gr_ret = "ok"
    /\ Sent.lead = <<171, 0, 0>>
    /\ Sent.tail = 0
    /\ gr_args.class_id = CLASS_APP

\* C13: the checks are made in the order size, class id, message id, CRC,
\* response code, and the verdict names the first that fails; a response
\* with a bad CRC and a non-zero code is reported as a CRC error.
C13_FirstFailingCheck ==
    Returned /\ Complete =>
        LET size_ok == Sent.size = RESPONSE_PAYLOAD_SIZE
            class_ok == Sent.cls = gr_args.class_id
            msg_ok == Sent.msg = gr_args.msg_id
            crc_ok == Sent.crc = "covered"
            code_ok == Sent.code = 0
        IN  /\ gr_ret = "size" <=> ~size_ok
            /\ gr_ret = "class_id" <=> size_ok /\ ~class_ok
            /\ gr_ret = "msg_id" <=> size_ok /\ class_ok /\ ~msg_ok
            /\ gr_ret = "crc" <=> size_ok /\ class_ok /\ msg_ok /\ ~crc_ok
            /\ gr_ret = "error" <=> size_ok /\ class_ok /\ msg_ok /\ crc_ok /\ ~code_ok

\* a bad CRC together with a non-zero response code
C13_Witness ==
    /\ gr_ret = "crc"
    /\ Sent.crc = "zero"
    /\ Sent.code = 1

\* the verdict on the bytes read with the byte at position i replaced by b
VerdictWith(i, b) ==
    get_response(gr_args.class_id, gr_args.msg_id, [gr_args.data EXCEPT ![i] = b])

ByteSamples == {0, 7, 85, 170, 171}

\* C15: the recomputed CRC covers the payload-size, class id, message id and
\* response-code bytes and no other byte: a response that is right in these
\* fields and carries their checksum is accepted, and changing one of the
\* three leading bytes or the trailing byte does not change the verdict.
C15_CrcCoversFieldsOnly ==
    Returned /\ Complete =>
        /\ \A i \in {1, 2, 3, response_size}, b \in ByteSamples : VerdictWith(i, b) = gr_ret
        /\ (/\ Sent.size = RESPONSE_PAYLOAD_SIZE
            /\ Sent.cls = gr_args.class_id
            /\ Sent.msg = gr_args.msg_id
            /\ Sent.code = 0
            /\ Sent.crc = "fields") => gr_ret = "ok"

\* C15, amended: the recomputed CRC covers the bytes at offsets 1 .. 8, the
\* second and third leading bytes included: changing the first leading byte
\* or the trailing byte does not change the verdict, and changing any byte
\* at offsets 1 .. 8 of an accepted response makes it rejected.
C15_CrcCoversOffsets1To8 ==
    Returned /\ Complete =>
        /\ \A i \in {1, response_size}, b \in ByteSamples : VerdictWith(i, b) = gr_ret
        /\ gr_ret = "ok" =>
             \A i \in 2 .. response_size - 5 :
                 \A b \in ByteSamples \ {gr_args.data[i]} : VerdictWith(i, b) # "ok"

\* an accepted response whose second leading byte is not zero
C15_Witness ==
    /\ gr_ret = "ok"
    /\ Sent.lead = <<170, 7, 0>>

----------------------------------------------------------------------------
(* C14 *)

\* C14: the (class id, message id) pair passed to get_response is the pair
\* encoded in the frame written immediately before it, the info frame of
\* either target included, so every accepted response carries the ids of
\* the most recently transmitted frame.
C14_ResponseMatchesFrame ==
    \A i \in RxIdx :
        /\ i > 1
        /\ log[i - 1].k = "frame"
        /\ log[i - 1].class_id = log[i].class_id
        /\ log[i - 1].msg_id = log[i].msg_id

\* the application info frame was accepted
C14_Witness ==
    \E i \in RxIdx :
        /\ log[i].verdict = "ok"
        /\ log[i].msg_id = MSG_ID_FIRMWARE_INFO
        /\ log[i - 1].payload.p = "app_info"
        /\ log[i].class_id = CLASS_APP

----------------------------------------------------------------------------
(* synchronize: the order of the sync words and the window *)

Sync1Idx == {i \in 1 .. Len(log) : log[i].k = "sync1"}
Sync2Idx == {i \in 1 .. Len(log) : log[i].k = "sync2"}

\* C16: after a failed second exchange the handshake restarts from sync
\* word 1: between two transmissions of sync word 2 there is a transmission
\* of sync word 1, and sync word 2 is never the first word transmitted.
C16_Sync2OnlyAfterSync1 ==
    \A i \in Sync2Idx :
        /\ \E j \in Sync1Idx : j < i
        /\ \A k \in Sync2Idx : k < i => \E j \in Sync1Idx : k < j /\ j < i

\* C20: while synchronize runs, the window resp_data holds exactly 4 bytes,
\* also after a failed or short read of sync-response-2.
C20_WindowIsFourBytes ==
    pc \in {"sync_outer", "sync_inner"} => Len(resp_data) = 4

----------------------------------------------------------------------------
(* send_reboot *)

RebootRetIdx == {i \in 1 .. Len(log) : log[i].k = "reboot_ret"}
AckIdx == {i \in 1 .. Len(log) : log[i].k = "ack"}
ResetFlags == {"REBOOT_NAVIGATION_PROCESSOR", "NOOP"}
\* the reset value the send_reboot that is running was called with
RunningFlag == IF pc = "send_reboot" THEN "REBOOT_NAVIGATION_PROCESSOR" ELSE "NOOP"

\* C17: send_reboot writes the reset command on entry and again each time
\* more than the resend interval has passed since the last write, never
\* sooner, while no acknowledgment has arrived and the timeout has not
\* elapsed; it returns success only on an OK acknowledgment, failure on a
\* rejecting one or when the timeout has elapsed; it writes nothing after an
\* acknowledgment.
C17_ResetCadence ==
    /\ \A flag \in ResetFlags : \A i \in ResetIdx(flag) :
         /\ (\A j \in ResetIdx(flag) : i <= j) => log[i].at = 0
         /\ \A j \in ResetIdx(flag) : i < j => log[j].at > log[i].at + RESEND_INTERVAL
    /\ pc \in {"send_reboot", "wait_restart"} /\ clock > 0 =>
         /\ ResetIdx(RunningFlag) # {}
         /\ \E i \in ResetIdx(RunningFlag) : clock <= log[i].at + RESEND_INTERVAL + 1
         /\ clock <= RebootTimeout
    /\ \A i \in RebootRetIdx :
         /\ ResetIdx(log[i].flag) # {}
         /\ log[i].ok <=> log[i - 1].k = "ack" /\ log[i - 1].status = "OK"
         /\ ~log[i].ok =>
              \/ log[i - 1].k = "ack" /\ log[i - 1].status = "rejected"
              \/ log[i - 1].k = "timeout" /\ log[i - 1].at >= RebootTimeout
    /\ \A i \in AckIdx :
         /\ log[i + 1].k = "reboot_ret"
         /\ \A j \in ResetIdx(log[i + 1].flag) : j < i

\* the reset command was retransmitted and then acknowledged OK
C17_Witness ==
    \E i \in RebootRetIdx :
        /\ log[i].ok
        /\ Cardinality(ResetIdx(log[i].flag)) >= 2

\* C18: in the wait for the restart the device is reported as restarted
\* when any acknowledgment arrives within the timeout, whatever its status,
\* and as not seen only when the timeout elapses without one.
C18_AnyAckMeansRestarted ==
    \A i \in RebootRetIdx :
        log[i].flag = "NOOP" => (log[i].ok <=> log[i - 1].k = "ack")

----------------------------------------------------------------------------
(* C19 *)

FramesOf(msg) == {i \in FrameIdx : log[i].msg_id = msg}
ErrorIdx ==
    {i \in 1 .. Len(log) :
        \/ log[i].k = "rx" /\ log[i].verdict # "ok"
        \/ log[i].k = "sync_ret" /\ ~log[i].ok
        \/ log[i].k = "reboot_ret" /\ ~log[i].ok /\ log[i].flag = "REBOOT_NAVIGATION_PROCESSOR"}

\* C19: every error ends the run and nothing but the reset command is
\* written a second time: the address, info and start frames are each
\* written at most once and no two chunks carry the same sequence number,
\* whatever responses arrive.
C19_NothingRetried ==
    /\ \A msg \in {MSG_ID_FIRMWARE_ADDRESS, MSG_ID_FIRMWARE_INFO, MSG_ID_START_UPGRADE} :
         Cardinality(FramesOf(msg)) <= 1
    /\ \A i, j \in ChunkIdx :
         log[i].payload.seq = log[j].payload.seq => i = j
    /\ \A i \in ErrorIdx :
         /\ pc = "done"
         /\ Failure
         /\ \A j \in i + 1 .. Len(log) : log[j].k = "close"

\* the third chunk was rejected
C19_Witness ==
    /\ Cardinality(ChunkIdx) = 3
    /\ \E i \in RxIdx : log[i].msg_id = MSG_ID_SEND_FIRMWARE /\ log[i].verdict = "crc"
    /\ result = "None"

====
